---- MODULE Spec2Model ----
(***************************************************************************)
(* Device Interaction Engine of the AI network agent: the command-safety   *)
(* classifier (CommandValidator), the remote-shell connector               *)
(* (DeviceConnector), the batch executor (Executor), the response          *)
(* classifier (FeedbackParser) and the fact gatherer (ContextBuilder).     *)
(*                                                                         *)
(* Text is modelled as TLA+ strings, character by character: Len, SubSeq,  *)
(* Head, Tail and \o act on strings as they do on sequences of             *)
(* one-character strings.  An optional Python value (None or a value v) is *)
(* the empty tuple <<>> or the one-element tuple <<v>>.                    *)
(***************************************************************************)
EXTENDS Integers, Sequences, FiniteSets, TLC

VARIABLES
    \* DeviceConnector
    client,                   \* self.client: "None" or "SSHClient"
    session_active,           \* whether the paramiko client holds an open session
    \* one Executor.execute_commands_on_device call
    pc,                       \* position of the call
    commands_str,             \* argument: the submitted text
    os_type,                  \* argument: the dialect
    commands_to_execute,      \* local: stripped non-blank lines
    is_safe_calls,            \* commands handed to CommandValidator.is_safe by the call
    cmd_index,                \* position of the for loop of line 60
    full_output,              \* local: the transcript
    error_occurred,           \* local
    is_cisco_config_session,  \* local
    sent,                     \* commands handed to SSHClient.exec_command by the call
    outcomes,                 \* what exec_command did with each of them
    result,                   \* the returned pair: [output, status]
    \* one command line handed to the CommandValidator
    v_command, v_os_type, v_is_safe, v_needs_config,
    \* one FeedbackParser.parse_output call
    f_command, f_output, f_os_type, f_result,
    \* ContextBuilder
    context,                  \* self.context
    gather_calls,             \* the gather_context calls made on the builder so far
    \* one device response handed to the two interface parsers
    p_output, p_cisco, p_linux,
    \* SecurityManager
    credentials,              \* self.credentials
    environ,                  \* os.environ
    credential_calls          \* the get_device_credentials calls made so far

connector_vars == <<client, session_active>>
executor_vars == <<pc, commands_str, os_type, commands_to_execute, is_safe_calls,
                   cmd_index, full_output, error_occurred, is_cisco_config_session,
                   sent, outcomes, result>>
validator_vars == <<v_command, v_os_type, v_is_safe, v_needs_config>>
feedback_vars == <<f_command, f_output, f_os_type, f_result>>
context_vars == <<context, gather_calls>>
parser_vars == <<p_output, p_cisco, p_linux>>
security_vars == <<credentials, environ, credential_calls>>
vars == <<connector_vars, executor_vars, validator_vars, feedback_vars, context_vars,
          parser_vars, security_vars>>

(***************************************************************************)
(* Bounds of the model.                                                    *)
(***************************************************************************)
\* Largest number of lines of a submitted text.
MaxLines == 3
\* Largest length of a whitespace-only command line given to is_safe.
MaxBlank == 3

(***************************************************************************)
(* Python values and string methods.                                       *)
(***************************************************************************)
None == <<>>
Some(v) == <<v>>

\* str(x) as an f-string field renders it: None is printed as "None".
Format(x) == IF x = None THEN "None" ELSE x[1]

CharAt(s, i) == SubSeq(s, i, i)
Chars(s) == {CharAt(s, i) : i \in 1..Len(s)}

UpperCase == "ABCDEFGHIJKLMNOPQRSTUVWXYZ"
LowerCase == "abcdefghijklmnopqrstuvwxyz"
Digits == "0123456789"
UpperChars == Chars(UpperCase)
WordChars == Chars(UpperCase) \cup Chars(LowerCase) \cup Chars(Digits) \cup {"_"}

\* The lower-case letter of every upper-case letter.
LowerOf ==
    [c \in UpperChars |->
        CharAt(LowerCase, CHOOSE i \in 1..Len(UpperCase) : CharAt(UpperCase, i) = c)]

\* str.lower() on one character.
LowerChar(c) == IF c \in UpperChars THEN LowerOf[c] ELSE c

RECURSIVE ToLower(_)
\* str.lower()
ToLower(s) == IF s = "" THEN "" ELSE LowerChar(Head(s)) \o ToLower(Tail(s))

\* The characters str.strip() removes and the regular expression \s matches
\* (those a TLA+ string can hold).
SpaceChars == {" ", "\t", "\n", "\r", "\f"}
IsSpace(c) == c \in SpaceChars

RECURSIVE LStrip(_)
LStrip(s) == IF s # "" /\ IsSpace(Head(s)) THEN LStrip(Tail(s)) ELSE s

RECURSIVE RStrip(_)
RStrip(s) ==
    IF s # "" /\ IsSpace(CharAt(s, Len(s))) THEN RStrip(SubSeq(s, 1, Len(s) - 1)) ELSE s

\* str.strip()
Strip(s) == RStrip(LStrip(s))

\* sub in s
Contains(sub, s) ==
    \E i \in 1..(Len(s) - Len(sub) + 1) : SubSeq(s, i, i + Len(sub) - 1) = sub

\* s.startswith(prefix)
StartsWith(s, prefix) ==
    Len(prefix) <= Len(s) /\ SubSeq(s, 1, Len(prefix)) = prefix

\* The upper-case letter of every lower-case letter.
UpperOf ==
    [c \in Chars(LowerCase) |->
        CharAt(UpperCase, CHOOSE i \in 1..Len(LowerCase) : CharAt(LowerCase, i) = c)]

RECURSIVE ToUpper(_)
\* str.upper()
ToUpper(s) ==
    IF s = "" THEN ""
    ELSE (IF Head(s) \in DOMAIN UpperOf THEN UpperOf[Head(s)] ELSE Head(s)) \o ToUpper(Tail(s))

\* str.find(sep) counted from 1: the first position of sep in s, 0 without one.
Find(s, sep) ==
    LET hits == {i \in 1..(Len(s) - Len(sep) + 1) : SubSeq(s, i, i + Len(sep) - 1) = sep}
    IN IF hits = {} THEN 0 ELSE CHOOSE i \in hits : \A j \in hits : i <= j

RECURSIVE SplitMax(_, _, _)
\* str.split(sep, maxsplit); a negative maxsplit is no limit.
SplitMax(s, sep, maxsplit) ==
    LET i == Find(s, sep)
    IN IF maxsplit = 0 \/ i = 0 THEN <<s>>
       ELSE <<SubSeq(s, 1, i - 1)>>
                \o SplitMax(SubSeq(s, i + Len(sep), Len(s)), sep, maxsplit - 1)

\* str.split(sep)
Split(s, sep) == SplitMax(s, sep, -1)

RECURSIVE SplitWhitespace(_)
\* str.split(): the maximal runs of characters that are not whitespace.
SplitWhitespace(s) ==
    LET t == LStrip(s)
        ends == {i \in 1..Len(t) : IsSpace(CharAt(t, i))}
        e == IF ends = {} THEN Len(t) + 1 ELSE CHOOSE i \in ends : \A j \in ends : i <= j
    IN IF t = "" THEN <<>>
       ELSE <<SubSeq(t, 1, e - 1)>> \o SplitWhitespace(SubSeq(t, e, Len(t)))

RECURSIVE Replace(_, _, _)
\* str.replace(old, new) for a non-empty old.
Replace(s, old, new) ==
    LET i == Find(s, old)
    IN IF i = 0 THEN s
       ELSE SubSeq(s, 1, i - 1) \o new \o Replace(SubSeq(s, i + Len(old), Len(s)), old, new)

LineBreakChars == {"\n", "\r", "\f"}
IsLineBreak(c) == c \in LineBreakChars

RECURSIVE SplitLines(_)
\* str.splitlines(): the lines of s without their line breaks; "\r\n" is one
\* break, and a final break opens no further line.
SplitLines(s) ==
    IF s = "" THEN <<>>
    ELSE LET breaks == {i \in 1..Len(s) : IsLineBreak(CharAt(s, i))}
         IN IF breaks = {} THEN <<s>>
            ELSE LET b == CHOOSE i \in breaks : \A j \in breaks : i <= j
                     n == IF CharAt(s, b) = "\r" /\ b < Len(s) /\ CharAt(s, b + 1) = "\n"
                          THEN 2 ELSE 1
                 IN <<SubSeq(s, 1, b - 1)>> \o SplitLines(SubSeq(s, b + n, Len(s)))

(***************************************************************************)
(* Regular expressions, as far as the destructive patterns use them.  A    *)
(* pattern is a sequence of atoms: a literal text, \b or \s+.              *)
(***************************************************************************)
Lit(text) == [atom |-> "literal", text |-> text]
WordBoundary == [atom |-> "\\b", text |-> ""]
Spaces == [atom |-> "\\s+", text |-> ""]

IGNORECASE == "re.IGNORECASE"
NOFLAGS == "0"

\* \w
IsWordChar(c) == c \in WordChars

\* \b holds before position i of s: exactly one of the two neighbours is a word character.
AtWordBoundary(s, i) ==
    LET before == i > 1 /\ IsWordChar(CharAt(s, i - 1))
        after == i <= Len(s) /\ IsWordChar(CharAt(s, i))
    IN before # after

Fold(s, flags) == IF flags = IGNORECASE THEN ToLower(s) ELSE s

RECURSIVE MatchHere(_, _, _, _, _)
\* The atoms k.. of pattern match s from position i on.
MatchHere(pattern, k, s, i, flags) ==
    IF k > Len(pattern) THEN TRUE
    ELSE LET a == pattern[k]
         IN CASE a.atom = "literal" ->
                    /\ i + Len(a.text) - 1 <= Len(s)
                    /\ Fold(SubSeq(s, i, i + Len(a.text) - 1), flags) = Fold(a.text, flags)
                    /\ MatchHere(pattern, k + 1, s, i + Len(a.text), flags)
              [] a.atom = "\\b" ->
                    /\ AtWordBoundary(s, i)
                    /\ MatchHere(pattern, k + 1, s, i, flags)
              [] a.atom = "\\s+" ->
                    \E n \in 1..(Len(s) - i + 1) :
                        /\ \A j \in i..(i + n - 1) : IsSpace(CharAt(s, j))
                        /\ MatchHere(pattern, k + 1, s, i + n, flags)

\* Variant of re_search with a fault: the flags are dropped, the search is
\* case-sensitive.
re_search_case_sensitive(pattern, string, flags) ==
    \E i \in 1..(Len(string) + 1) : MatchHere(pattern, 1, string, i, NOFLAGS)

\* re.search(pattern, string, flags) is not None
re_search(pattern, string, flags) ==
    \E i \in 1..(Len(string) + 1) : MatchHere(pattern, 1, string, i, flags)

(***************************************************************************)
(* CommandValidator                                                        *)
(***************************************************************************)
destructive_patterns ==
    [linux |-> << <<WordBoundary, Lit("rm"), Spaces, Lit("-rf")>>,
                  <<WordBoundary, Lit("mkfs")>>,
                  <<WordBoundary, Lit("fdisk")>>,
                  <<WordBoundary, Lit("dd"), WordBoundary>>,
                  <<Lit("reboot")>>,
                  <<Lit("shutdown")>>,
                  <<Lit("poweroff")>> >>,
     cisco_ios |-> << <<Lit("erase"), Spaces, Lit("startup-config")>>,
                      <<Lit("delete"), Spaces, Lit("flash:")>>,
                      <<Lit("reload")>>,
                      <<Lit("write"), Spaces, Lit("erase")>> >>,
     paloalto_panos |-> << <<Lit("delete"), Spaces, Lit("rulebase")>>,
                           <<Lit("request"), Spaces, Lit("system"), Spaces,
                             Lit("private-data-reset")>> >>]

cisco_config_mode_commands ==
    <<"interface", "router ospf", "ip route", "access-list",
      "crypto map", "snmp-server", "logging host", "ntp server",
      "hostname", "banner motd", "enable secret", "line vty", "ip address">>

RECURSIVE MatchesFrom(_, _, _)
\* The for loop of is_safe from pattern k on: TRUE when some pattern is found.
MatchesFrom(patterns, k, command) ==
    IF k > Len(patterns) THEN FALSE
    ELSE IF re_search(patterns[k], command, IGNORECASE) THEN TRUE
    ELSE MatchesFrom(patterns, k + 1, command)

\* Variant of is_safe with a fault: the check for an empty command is missing.
is_safe_without_empty_check(command, os) ==
    ~ (os \in DOMAIN destructive_patterns /\ MatchesFrom(destructive_patterns[os], 1, command))

\* CommandValidator.is_safe
is_safe(command, os) ==
    IF os \in DOMAIN destructive_patterns /\ MatchesFrom(destructive_patterns[os], 1, command)
    THEN FALSE
    ELSE IF command = "" \/ Len(Strip(command)) = 0 THEN FALSE
    ELSE TRUE

\* Variant of needs_config_mode with a fault: the rule for 'set ' is missing.
needs_config_mode_without_set(command, os) ==
    IF os # "cisco_ios" THEN FALSE
    ELSE LET command_lower == ToLower(Strip(command))
         IN \E k \in 1..Len(cisco_config_mode_commands) :
                StartsWith(command_lower, ToLower(cisco_config_mode_commands[k]))

\* CommandValidator.needs_config_mode
needs_config_mode(command, os) ==
    IF os # "cisco_ios" THEN FALSE
    ELSE LET command_lower == ToLower(Strip(command))
         IN IF \E k \in 1..Len(cisco_config_mode_commands) :
                    StartsWith(command_lower, ToLower(cisco_config_mode_commands[k]))
            THEN TRUE
            ELSE StartsWith(command_lower, "set ")

(***************************************************************************)
(* DeviceConnector                                                         *)
(***************************************************************************)
\* What SSHClient.exec_command can do with one command: raise, or give the
\* two output streams.
Raised(text) == [raised |-> TRUE, exception |-> text, stdout |-> "", stderr |-> ""]
Streams(out, err) == [raised |-> FALSE, exception |-> "", stdout |-> out, stderr |-> err]

AckOutcome == Streams("Enter configuration commands, one per line.", "")
PromptOutcome == Streams("Router#", "")
InvalidOutcome == Streams("Router#", "% Invalid input detected at '^' marker.")
RaiseOutcome == Raised("Socket is closed")
InactiveOutcome == Raised("SSH session not active")

\* The outcomes of exec_command: a client without an open session raises.
ExecOutcomes(active) ==
    IF active
    THEN {AckOutcome, PromptOutcome, InvalidOutcome, RaiseOutcome}
    ELSE {InactiveOutcome}

\* DeviceConnector.execute_command: the returned value.
execute_command(cl, outcome) ==
    IF cl = "None" THEN None
    ELSE IF outcome.raised THEN Some(outcome.exception)
    ELSE IF outcome.stderr # "" THEN Some(outcome.stderr)
    ELSE Some(outcome.stdout)

(***************************************************************************)
(* Executor.execute_commands_on_device                                     *)
(***************************************************************************)
\* Variant of StripNonBlank with a fault: the blank lines are kept.
strip_every_line(lines) == [k \in 1..Len(lines) |-> Strip(lines[k])]

RECURSIVE StripNonBlank(_)
\* [cmd.strip() for cmd in lines if cmd.strip()]
StripNonBlank(lines) ==
    IF lines = <<>> THEN <<>>
    ELSE IF Strip(Head(lines)) # "" THEN <<Strip(Head(lines))>> \o StripNonBlank(Tail(lines))
    ELSE StripNonBlank(Tail(lines))

RECURSIVE FirstUnsafeFrom(_, _, _)
\* The validation loop from command k on: the index of the first command
\* is_safe rejects, 0 when it accepts them all.
FirstUnsafeFrom(cmds, k, os) ==
    IF k > Len(cmds) THEN 0
    ELSE IF ~ is_safe(cmds[k], os) THEN k
    ELSE FirstUnsafeFrom(cmds, k + 1, os)

\* Variant of first_unsafe with a fault: only the first command is validated.
first_unsafe_head_only(cmds, os) == IF ~ is_safe(cmds[1], os) THEN 1 ELSE 0

first_unsafe(cmds, os) == FirstUnsafeFrom(cmds, 1, os)

\* Variant of any_needs_config_mode with a fault: no command is asked.
config_mode_assumed(cmds, os) == TRUE

\* Variant of any_needs_config_mode with a fault: only the first command is asked.
first_needs_config_mode(cmds, os) == needs_config_mode(cmds[1], os)

\* any(needs_config_mode(cmd, os_type) for cmd in commands_to_execute)
any_needs_config_mode(cmds, os) ==
    \E k \in 1..Len(cmds) : needs_config_mode(cmds[k], os)

\* The condition under which the entry into configuration mode counts as failed.
config_entry_failed(conf_t_output) ==
    /\ ~ Contains("Enter configuration commands", conf_t_output)
    /\ Contains("% Invalid input", conf_t_output)

\* output.lower() for the texts execute_command returns, computed once.
lowered_output ==
    [text \in {Format(execute_command("SSHClient", o)) :
                  o \in ExecOutcomes(TRUE) \cup ExecOutcomes(FALSE)} |-> ToLower(text)]

\* The basic error check on the output of one command.
potential_error(output) ==
    /\ output # None
    /\ output[1] # ""
    /\ \/ Contains("% Invalid input", output[1])
       \/ Contains("Error:", output[1])
       \/ Contains("fail", IF output[1] \in DOMAIN lowered_output
                           THEN lowered_output[output[1]] ELSE ToLower(output[1]))

\* Variant of transcript_entry with a fault: the response is left out.
transcript_entry_without_output(cmd, output) == "$ " \o cmd \o "\n"

\* f"$ {cmd}\n{output}\n"
transcript_entry(cmd, output) == "$ " \o cmd \o "\n" \o Format(output) \o "\n"

\* Variant of loop_continues with a fault: the loop stops at a potential error.
loop_stops_on_error(index, cmds, output) == index < Len(cmds) /\ ~ potential_error(output)

\* The for loop over commands_to_execute has no break: it goes on while
\* commands are left, whatever the output was.
loop_continues(index, cmds, output) == index < Len(cmds)

NoResult == [output |-> None, status |-> ""]
Returned(output, status) == [output |-> output, status |-> status]

StatusNotConnected == "Device not connected."
StatusNoCommands == "No commands provided."
StatusEntryFailed == "Failed to enter Cisco config mode."
StatusFailed == "One or more commands may have failed."
StatusSuccess == "Commands executed successfully."
StatusUnsafe(cmd) == "Command '" \o cmd \o "' is unsafe."

(***************************************************************************)
(* FeedbackParser.parse_output.  The returned dict is a record; its key    *)
(* error_line, which the code sets only on some paths, is None while unset. *)
(***************************************************************************)
default_result ==
    [success |-> TRUE, message |-> "Command output received.", data |-> None,
     error_line |-> None]

\* Variant of no_output_result with a fault: the verdict is left as it was.
no_output_result_unmarked ==
    [default_result EXCEPT
        !.message = "No output received from device (connection issue or command produced no STDOUT/STDERR)."]

\* What parse_output returns when output is None.
no_output_result ==
    [default_result EXCEPT
        !.success = FALSE,
        !.message = "No output received from device (connection issue or command produced no STDOUT/STDERR)."]

generic_error_keywords ==
    <<"error:", "% invalid input", "command rejected", "unknown command",
      "failure", "failed">>

apt_error_keywords == <<"unable to locate package", "e:">>

\* Variant of cisco_error_patterns with a fault: the messages are exchanged.
cisco_error_patterns_exchanged ==
    << <<"incomplete command", "Ambiguous command.">>,
       <<"ambiguous command", "Incomplete command.">> >>

\* The dict of the Cisco error phrases and their messages, in its order.
cisco_error_patterns ==
    << <<"incomplete command", "Incomplete command.">>,
       <<"ambiguous command", "Ambiguous command.">> >>

panos_cli_errors == <<"invalid syntax", "unknown command">>
panos_api_error_pattern == "<response status=\"error\""

RECURSIVE FirstKeyFrom(_, _, _)
\* A for loop over keywords with `if key in output_lower`: the position of
\* the first keyword from k on that the text contains, 0 when there is none.
FirstKeyFrom(keys, k, text) ==
    IF k > Len(keys) THEN 0
    ELSE IF Contains(keys[k], text) THEN k
    ELSE FirstKeyFrom(keys, k + 1, text)

RECURSIVE FirstLineWith(_, _, _)
\* The loop over output.splitlines() with `if key in line.lower()`: the first
\* such line from k on, None when the loop ends without a break.
FirstLineWith(key, lines, k) ==
    IF k > Len(lines) THEN None
    ELSE IF Contains(key, ToLower(lines[k])) THEN Some(lines[k])
    ELSE FirstLineWith(key, lines, k + 1)

\* Variant of error_line_of with a fault: the loop has no break and keeps the
\* last line.
error_line_last(key, output) ==
    LET lines == SplitLines(output)
        hits == {i \in 1..Len(lines) : Contains(key, ToLower(lines[i]))}
    IN IF hits = {} THEN None
       ELSE Some(lines[CHOOSE i \in hits : \A j \in hits : j <= i])

\* The value of result["error_line"] after the loop over the lines.
error_line_of(key, output) == FirstLineWith(key, SplitLines(output), 1)

\* A failure verdict with its message and the line of the keyword.
error_result(res, message, key, output) ==
    [res EXCEPT !.success = FALSE, !.message = message,
                !.error_line = error_line_of(key, output)]

\* Lines 116-123: the message of a verdict that is still a success.
final_result(res) ==
    IF res.success
    THEN [res EXCEPT
             !.message = "Command appears to have executed successfully (no obvious errors found)."]
    ELSE res

\* Lines 47-63
linux_result(res, command, output, output_lower) ==
    LET after_useradd ==
            IF Contains("useradd", command) /\ Contains("already exists", output_lower)
            THEN [res EXCEPT !.success = FALSE, !.message = "User likely already exists."]
            ELSE res
        k == IF StartsWith(command, "apt install") \/ StartsWith(command, "apt-get install")
             THEN FirstKeyFrom(apt_error_keywords, 1, output_lower)
             ELSE 0
    IN IF k # 0
       THEN error_result(after_useradd,
                         "Apt install command failed. Package not found or other apt error.",
                         apt_error_keywords[k], output)
       ELSE final_result(after_useradd)

\* Variant of cisco_percent_marker with a fault: every '%' is an error.
cisco_percent_marker_is_error(res, output, output_lower) ==
    IF Contains("%", output)
    THEN [res EXCEPT !.success = FALSE, !.message = "Cisco '%' message found in output."]
    ELSE res

\* Lines 67-72: a '% ' marker, informational or not, changes nothing.
cisco_percent_marker(res, output, output_lower) ==
    IF Contains("% ", output)
    THEN IF ~ (Contains("%SYS-", output) /\ Contains("configured from console", output_lower))
         THEN res
         ELSE res
    ELSE res

\* Lines 65-88
cisco_ios_result(res, output, output_lower) ==
    LET marked == cisco_percent_marker(res, output, output_lower)
        patterns == [i \in 1..Len(cisco_error_patterns) |-> cisco_error_patterns[i][1]]
        k == FirstKeyFrom(patterns, 1, output_lower)
    IN IF k # 0
       THEN error_result(marked, cisco_error_patterns[k][2], cisco_error_patterns[k][1], output)
       ELSE final_result(marked)

\* Lines 91-114
paloalto_panos_result(res, output, output_lower) ==
    LET k == FirstKeyFrom(panos_cli_errors, 1, output_lower)
    IN IF k # 0
       THEN error_result(res, "PAN-OS command error: '" \o panos_cli_errors[k] \o "' found.",
                         panos_cli_errors[k], output)
       ELSE IF Contains(panos_api_error_pattern, output_lower)
       THEN error_result(res, "PAN-OS API returned an error.", panos_api_error_pattern, output)
       ELSE final_result(res)

\* FeedbackParser.parse_output; output is None or Some(text).
parse_output(command, output, os) ==
    IF output = None THEN no_output_result
    ELSE LET text == output[1]
             output_lower == ToLower(text)
             g == FirstKeyFrom(generic_error_keywords, 1, output_lower)
         IN IF g # 0
            THEN error_result(default_result,
                              "Potential error detected: '" \o generic_error_keywords[g]
                                  \o "' found in output.",
                              generic_error_keywords[g], text)
            ELSE IF os = "linux"
            THEN linux_result(default_result, command, text, output_lower)
            ELSE IF os = "cisco_ios"
            THEN cisco_ios_result(default_result, text, output_lower)
            ELSE IF os = "paloalto_panos"
            THEN paloalto_panos_result(default_result, text, output_lower)
            ELSE final_result(default_result)

(***************************************************************************)
(* ContextBuilder.  self.context is a dict with the keys os_type, hostname, *)
(* os_version and interfaces; it is a record whose field is None while the *)
(* dict lacks the key.  interfaces is a dict from interface names to dicts *)
(* with the keys ip_address, status and protocol; it is a set of records   *)
(* with one record per name, whose field is None when the inner dict lacks *)
(* the key or holds None under it (dict.get reads both as None).           *)
(***************************************************************************)
EmptyContext ==
    [os_type |-> None, hostname |-> None, os_version |-> None, interfaces |-> None]

\* The inner dict {} of an interface.
EmptyInterface(name) ==
    [name |-> name, ip_address |-> None, status |-> None, protocol |-> None]

\* interfaces[entry.name] = entry
DictPut(interfaces, entry) ==
    {e \in interfaces : e.name # entry.name} \cup {entry}

HostnameCommands ==
    {"hostname", "show running-config | include hostname", "show system info | match hostname"}
VersionCommands ==
    {"cat /etc/os-release | grep PRETTY_NAME | cut -d'=' -f2 | tr -d '\"'",
     "show version | include Cisco IOS Software", "show system info | match sw-version"}
InterfaceCommands == {"ip addr", "show ip interface brief"}

\* The text a device writes to standard output for a command, as the tests'
\* command_map.get(cmd, "") gives it.
Respond(device, command) ==
    IF command \in HostnameCommands THEN device.hostname
    ELSE IF command \in VersionCommands THEN device.version
    ELSE IF command \in InterfaceCommands THEN device.interfaces
    ELSE ""

\* self.device_connector.execute_command(command) on a connector with a
\* client: the text of the device, or of the exception of a closed session.
Answer(device, active, command) ==
    execute_command("SSHClient",
                    IF active THEN Streams(Respond(device, command), "")
                    ELSE InactiveOutcome)[1]

\* Lines 66-77: the status that an interface line's details give.
linux_status(details_part) ==
    IF Contains("state ", details_part)
    THEN ToUpper(Split(Split(details_part, "state ")[2], " ")[1])
    ELSE IF Contains("<", details_part) /\ Contains(">", details_part)
    THEN LET flags_str == Split(Split(details_part, "<")[2], ">")[1]
             flags == Split(ToUpper(flags_str), ",")
         IN IF \E i \in 1..Len(flags) : flags[i] = "UP" THEN "UP" ELSE "UNKNOWN"
    ELSE "UNKNOWN"

\* Variant of linux_interface_line with a fault: the header of 'lo' leaves
\* current_interface_name as it was.
linux_interface_line_lo_keeps_current(st, line) ==
    LET stripped_line == Strip(line)
    IN IF ~ StartsWith(line, " ") /\ Contains(":", line)
       THEN LET parts == SplitMax(line, ":", 2)
                iface_name_from_line == Strip(parts[2])
            IN IF iface_name_from_line = "lo"
               THEN st
               ELSE IF Len(parts) < 3
               \* parts[2] raises IndexError after the name got its empty dict
               THEN [interfaces |-> DictPut(st.interfaces,
                                            EmptyInterface(iface_name_from_line)),
                     current_interface_name |-> None]
               ELSE [interfaces |->
                         DictPut(st.interfaces,
                                 [EmptyInterface(iface_name_from_line) EXCEPT
                                     !.status = Some(linux_status(parts[3]))]),
                     current_interface_name |-> Some(iface_name_from_line)]
       ELSE IF /\ st.current_interface_name # None
               /\ st.current_interface_name # Some("")
               /\ StartsWith(stripped_line, "inet ")
       THEN LET ip_parts == SplitWhitespace(stripped_line)
                entry == CHOOSE e \in st.interfaces : e.name = st.current_interface_name[1]
            IN IF Len(ip_parts) >= 2 /\ entry.ip_address = None
               THEN [st EXCEPT !.interfaces =
                        DictPut(st.interfaces, [entry EXCEPT !.ip_address = Some(ip_parts[2])])]
               ELSE st
       ELSE st

\* Variant of linux_interface_line with a fault: every 'inet ' line replaces
\* the address.
linux_interface_line_last_inet(st, line) ==
    LET stripped_line == Strip(line)
    IN IF ~ StartsWith(line, " ") /\ Contains(":", line)
       THEN LET parts == SplitMax(line, ":", 2)
                iface_name_from_line == Strip(parts[2])
            IN IF iface_name_from_line = "lo"
               THEN [st EXCEPT !.current_interface_name = None]
               ELSE IF Len(parts) < 3
               \* parts[2] raises IndexError after the name got its empty dict
               THEN [interfaces |-> DictPut(st.interfaces,
                                            EmptyInterface(iface_name_from_line)),
                     current_interface_name |-> None]
               ELSE [interfaces |->
                         DictPut(st.interfaces,
                                 [EmptyInterface(iface_name_from_line) EXCEPT
                                     !.status = Some(linux_status(parts[3]))]),
                     current_interface_name |-> Some(iface_name_from_line)]
       ELSE IF /\ st.current_interface_name # None
               /\ st.current_interface_name # Some("")
               /\ StartsWith(stripped_line, "inet ")
       THEN LET ip_parts == SplitWhitespace(stripped_line)
                entry == CHOOSE e \in st.interfaces : e.name = st.current_interface_name[1]
            IN IF Len(ip_parts) >= 2
               THEN [st EXCEPT !.interfaces =
                        DictPut(st.interfaces, [entry EXCEPT !.ip_address = Some(ip_parts[2])])]
               ELSE st
       ELSE st

\* Lines 48-86: one turn of the loop over the lines of 'ip addr'.  st holds
\* the dict interfaces and current_interface_name.
linux_interface_line(st, line) ==
    LET stripped_line == Strip(line)
    IN IF ~ StartsWith(line, " ") /\ Contains(":", line)
       THEN LET parts == SplitMax(line, ":", 2)
                iface_name_from_line == Strip(parts[2])
            IN IF iface_name_from_line = "lo"
               THEN [st EXCEPT !.current_interface_name = None]
               ELSE IF Len(parts) < 3
               \* parts[2] raises IndexError after the name got its empty dict
               THEN [interfaces |-> DictPut(st.interfaces,
                                            EmptyInterface(iface_name_from_line)),
                     current_interface_name |-> None]
               ELSE [interfaces |->
                         DictPut(st.interfaces,
                                 [EmptyInterface(iface_name_from_line) EXCEPT
                                     !.status = Some(linux_status(parts[3]))]),
                     current_interface_name |-> Some(iface_name_from_line)]
       ELSE IF /\ st.current_interface_name # None
               /\ st.current_interface_name # Some("")
               /\ StartsWith(stripped_line, "inet ")
       THEN LET ip_parts == SplitWhitespace(stripped_line)
                entry == CHOOSE e \in st.interfaces : e.name = st.current_interface_name[1]
            IN IF Len(ip_parts) >= 2 /\ entry.ip_address = None
               THEN [st EXCEPT !.interfaces =
                        DictPut(st.interfaces, [entry EXCEPT !.ip_address = Some(ip_parts[2])])]
               ELSE st
       ELSE st

RECURSIVE linux_interface_lines(_, _, _)
\* The loop of line 47 from line k on.
linux_interface_lines(st, lines, k) ==
    IF k > Len(lines) THEN st
    ELSE linux_interface_lines(linux_interface_line(st, lines[k]), lines, k + 1)

\* Line 88: the interfaces with a non-empty dict and a non-empty status.
interfaces_cleaned(interfaces) ==
    {e \in interfaces : e.status # None /\ e.status # Some("")}

\* ContextBuilder._parse_linux_interfaces on the output of 'ip addr'.
parse_linux_interfaces(output) ==
    interfaces_cleaned(
        linux_interface_lines([interfaces |-> {}, current_interface_name |-> None],
                              SplitLines(output), 1).interfaces)

\* Variant of cisco_interface_line with a fault: the status is read from the
\* fifth column, counted from the left.
cisco_interface_line_fifth_column(interfaces, line) ==
    LET parts == SplitWhitespace(line)
    IN IF Len(parts) >= 6 /\ ~ Contains("Interface", parts[1])
       THEN DictPut(interfaces,
                    [name |-> parts[1],
                     ip_address |-> IF parts[2] # "unassigned" THEN Some(parts[2]) ELSE None,
                     status |-> Some(parts[5]),
                     protocol |-> Some(parts[Len(parts)])])
       ELSE interfaces

\* Lines 116-126: one turn of the loop over the lines of 'show ip interface
\* brief'.
cisco_interface_line(interfaces, line) ==
    LET parts == SplitWhitespace(line)
    IN IF Len(parts) >= 6 /\ ~ Contains("Interface", parts[1])
       THEN DictPut(interfaces,
                    [name |-> parts[1],
                     ip_address |-> IF parts[2] # "unassigned" THEN Some(parts[2]) ELSE None,
                     status |-> Some(parts[Len(parts) - 1]),
                     protocol |-> Some(parts[Len(parts)])])
       ELSE interfaces

RECURSIVE cisco_interface_lines(_, _, _)
\* The loop of line 114 from line k on.
cisco_interface_lines(interfaces, lines, k) ==
    IF k > Len(lines) THEN interfaces
    ELSE cisco_interface_lines(cisco_interface_line(interfaces, lines[k]), lines, k + 1)

\* ContextBuilder._parse_cisco_interfaces on the output of 'show ip interface
\* brief'.
parse_cisco_interfaces(output) ==
    cisco_interface_lines({}, SplitLines(output), 1)

\* What a _gather_*_context method leaves behind: the dict, the commands it
\* sent, and whether it raised.
Gathered(ctx, commands, raised) ==
    [context |-> ctx, sent |-> commands, raised |-> raised]

\* Variant of _gather_linux_context with a fault: the hostname is appended to
\* the one the dict holds.
gather_linux_context_appending(ctx, device, active) ==
    Gathered([ctx EXCEPT
                 !.os_type = Some("linux"),
                 !.hostname = Some((IF ctx.hostname = None THEN "" ELSE ctx.hostname[1])
                                   \o Strip(Answer(device, active, "hostname"))),
                 !.os_version =
                     Some(Strip(Answer(device, active,
                         "cat /etc/os-release | grep PRETTY_NAME | cut -d'=' -f2 | tr -d '\"'"))),
                 !.interfaces = Some(parse_linux_interfaces(Answer(device, active, "ip addr")))],
             <<"hostname",
               "cat /etc/os-release | grep PRETTY_NAME | cut -d'=' -f2 | tr -d '\"'",
               "ip addr">>,
             FALSE)

\* ContextBuilder._gather_linux_context
gather_linux_context(ctx, device, active) ==
    Gathered([ctx EXCEPT
                 !.os_type = Some("linux"),
                 !.hostname = Some(Strip(Answer(device, active, "hostname"))),
                 !.os_version =
                     Some(Strip(Answer(device, active,
                         "cat /etc/os-release | grep PRETTY_NAME | cut -d'=' -f2 | tr -d '\"'"))),
                 !.interfaces = Some(parse_linux_interfaces(Answer(device, active, "ip addr")))],
             <<"hostname",
               "cat /etc/os-release | grep PRETTY_NAME | cut -d'=' -f2 | tr -d '\"'",
               "ip addr">>,
             FALSE)

\* Lines 97-103: the dict after the version line was looked at.
cisco_os_version(ctx, version_output) ==
    IF version_output # ""
    THEN LET parts == Split(version_output, ",")
         IN IF Len(parts) > 2
            THEN [ctx EXCEPT !.os_version = Some(Strip(Replace(parts[3], " Version ", "")))]
            ELSE ctx
    ELSE ctx

\* ContextBuilder._gather_cisco_ios_context
gather_cisco_ios_context(ctx, device, active) ==
    LET hostname_parts ==
            SplitWhitespace(Answer(device, active, "show running-config | include hostname"))
        typed == [ctx EXCEPT !.os_type = Some("cisco_ios")]
    IN IF hostname_parts = <<>>
       \* split()[-1] raises IndexError
       THEN Gathered(typed,
                     <<"terminal length 0", "show running-config | include hostname">>,
                     TRUE)
       ELSE Gathered([cisco_os_version(
                          [typed EXCEPT !.hostname = Some(hostname_parts[Len(hostname_parts)])],
                          Answer(device, active, "show version | include Cisco IOS Software"))
                      EXCEPT !.interfaces =
                          Some(parse_cisco_interfaces(
                                   Answer(device, active, "show ip interface brief")))],
                     <<"terminal length 0", "show running-config | include hostname",
                       "show version | include Cisco IOS Software", "show ip interface brief",
                       "terminal no length">>,
                     FALSE)

\* ContextBuilder._gather_paloalto_panos_context
gather_paloalto_panos_context(ctx, device, active) ==
    LET hostname_parts ==
            Split(Answer(device, active, "show system info | match hostname"), ":")
        version_parts ==
            Split(Answer(device, active, "show system info | match sw-version"), ":")
    IN Gathered([ctx EXCEPT
                    !.os_type = Some("paloalto_panos"),
                    !.hostname = Some(Strip(hostname_parts[Len(hostname_parts)])),
                    !.os_version = Some(Strip(version_parts[Len(version_parts)]))],
                <<"show system info | match hostname", "show system info | match sw-version">>,
                FALSE)

\* Lines 17-21: the dialect the chain of comparisons of os_type.lower()
\* selects.
dispatch(os) == ToLower(os)

\* Variant of gather_context with a fault: os_type is written to the dict
\* before the dialect is looked at.
gather_context_typed_first(ctx, cl, device, active, os) ==
    IF cl = "None" THEN [context |-> ctx, sent |-> <<>>, returned |-> "None"]
    ELSE IF dispatch(os) \notin {"linux", "cisco_ios", "paloalto_panos"}
    THEN [context |-> [ctx EXCEPT !.os_type = Some(os)], sent |-> <<>>, returned |-> "None"]
    ELSE LET g == IF dispatch(os) = "linux" THEN gather_linux_context(ctx, device, active)
                  ELSE IF dispatch(os) = "cisco_ios"
                  THEN gather_cisco_ios_context(ctx, device, active)
                  ELSE gather_paloalto_panos_context(ctx, device, active)
         IN [context |-> g.context, sent |-> g.sent,
             returned |-> IF g.raised THEN "None" ELSE "self.context"]

\* ContextBuilder.gather_context: the dict it leaves in self.context, the
\* commands it sent, and what it returned: "None" or a reference to the
\* dict, "self.context".
gather_context(ctx, cl, device, active, os) ==
    IF cl = "None" THEN [context |-> ctx, sent |-> <<>>, returned |-> "None"]
    ELSE IF dispatch(os) \notin {"linux", "cisco_ios", "paloalto_panos"}
    THEN [context |-> ctx, sent |-> <<>>, returned |-> "None"]
    ELSE LET g == IF dispatch(os) = "linux" THEN gather_linux_context(ctx, device, active)
                  ELSE IF dispatch(os) = "cisco_ios"
                  THEN gather_cisco_ios_context(ctx, device, active)
                  ELSE gather_paloalto_panos_context(ctx, device, active)
         IN [context |-> g.context, sent |-> g.sent,
             returned |-> IF g.raised THEN "None" ELSE "self.context"]

(***************************************************************************)
(* SecurityManager.  self.credentials maps a device identifier to a dict   *)
(* with the keys username, password and password_encrypted; the dict is a  *)
(* record whose field is None while the dict lacks the key, and an         *)
(* identifier without an entry maps to None.  os.environ maps a variable   *)
(* name to its value, None while the variable is not set.                  *)
(***************************************************************************)
DeviceIds == {"dev1", "DEV1"}
EnvNames == {"DEV1_USERNAME", "DEV1_PASSWORD", "dev1_USERNAME"}

NoCredentials == [d \in DeviceIds |-> None]
NoEnvironment == [n \in EnvNames |-> None]

\* The dict {"username": username, "password": password}.
PlainEntry(username, password) ==
    [username |-> Some(username), password |-> Some(password), password_encrypted |-> None]

\* os.getenv(name)
getenv(env, name) == IF name \in DOMAIN env THEN env[name] ELSE None

\* SecurityManager.set_device_credentials: the dict self.credentials after it.
set_device_credentials(store, device_identifier, username, password) ==
    [store EXCEPT ![device_identifier] = Some(PlainEntry(username, password))]

\* Lines 104-110: the fallback to the environment variables.
env_credentials(env, device_identifier) ==
    LET env_user == getenv(env, ToUpper(device_identifier) \o "_USERNAME")
        env_pass == getenv(env, ToUpper(device_identifier) \o "_PASSWORD")
    IN [returned |-> IF /\ env_user # None /\ env_user # Some("")
                        /\ env_pass # None /\ env_pass # Some("")
                     THEN Some(PlainEntry(env_user[1], env_pass[1]))
                     ELSE None,
        getenv_calls |-> <<ToUpper(device_identifier) \o "_USERNAME",
                           ToUpper(device_identifier) \o "_PASSWORD">>]

\* SecurityManager.get_device_credentials: the returned value, None or a
\* dict, and the names the call handed to os.getenv.
get_device_credentials(store, env, device_identifier) ==
    LET creds == store[device_identifier]
        \* a dict that is there and not empty
        truthy == creds # None /\ creds # Some([username |-> None, password |-> None,
                                                 password_encrypted |-> None])
    IN IF truthy /\ creds[1].password_encrypted # None
       THEN IF creds[1].password # None
            THEN [returned |-> creds, getenv_calls |-> <<>>]
            ELSE [returned |-> None, getenv_calls |-> <<>>]
       ELSE IF truthy
       THEN [returned |-> creds, getenv_calls |-> <<>>]
       ELSE env_credentials(env, device_identifier)

(***************************************************************************)
(* Inputs                                                                  *)
(***************************************************************************)
OsTypes == {"linux", "cisco_ios", "paloalto_panos", "junos"}

\* The lines submitted texts are made of.
RawLines ==
    {"show version", " hostname R1 ", "reload", "rm -rf /tmp/x", "  "}

RECURSIVE JoinLines(_)
JoinLines(lines) ==
    IF lines = <<>> THEN ""
    ELSE IF Len(lines) = 1 THEN lines[1]
    ELSE lines[1] \o "\n" \o JoinLines(Tail(lines))

InputTexts == {JoinLines(b) : b \in UNION {[1..n -> RawLines] : n \in 0..MaxLines}}

(***************************************************************************)
(* Actions                                                                 *)
(***************************************************************************)
Init ==
    /\ client = "None"
    /\ session_active = FALSE
    /\ pc = "idle"
    /\ commands_str = ""
    /\ os_type = "linux"
    /\ commands_to_execute = <<>>
    /\ is_safe_calls = <<>>
    /\ cmd_index = 1
    /\ full_output = ""
    /\ error_occurred = FALSE
    /\ is_cisco_config_session = FALSE
    /\ sent = <<>>
    /\ outcomes = <<>>
    /\ result = NoResult
    /\ v_command = ""
    /\ v_os_type = "linux"
    /\ v_is_safe = None
    /\ v_needs_config = None
    /\ f_command = ""
    /\ f_output = None
    /\ f_os_type = "linux"
    /\ f_result = None
    /\ context = EmptyContext
    /\ gather_calls = <<>>
    /\ p_output = None
    /\ p_cisco = None
    /\ p_linux = None
    /\ credentials = NoCredentials
    /\ environ = NoEnvironment
    /\ credential_calls = <<>>

NoCall == pc = "idle"

\* DeviceConnector.connect: the client object is created before the
\* connection attempt and stays when the attempt fails.
connect ==
    /\ NoCall
    /\ \E ok \in BOOLEAN :
        /\ client' = "SSHClient"
        /\ session_active' = ok
    /\ UNCHANGED <<pc, commands_str, os_type, commands_to_execute, is_safe_calls, cmd_index,
                   full_output, error_occurred, is_cisco_config_session, sent, outcomes,
                   result>>
    /\ UNCHANGED validator_vars
    /\ UNCHANGED feedback_vars
    /\ UNCHANGED context_vars
    /\ UNCHANGED parser_vars
    /\ UNCHANGED security_vars

\* DeviceConnector.disconnect: closes the client, which stays in self.client.
disconnect ==
    /\ NoCall
    /\ session_active' = IF client # "None" THEN FALSE ELSE session_active
    /\ UNCHANGED <<pc, client, commands_str, os_type, commands_to_execute, is_safe_calls,
                   cmd_index, full_output, error_occurred, is_cisco_config_session, sent,
                   outcomes, result>>
    /\ UNCHANGED validator_vars
    /\ UNCHANGED feedback_vars
    /\ UNCHANGED context_vars
    /\ UNCHANGED parser_vars
    /\ UNCHANGED security_vars

\* execute_commands_on_device up to the first send: the two refusals, the
\* validation of every command and the decision on configuration mode.
Submit ==
    /\ NoCall
    /\ \E text \in InputTexts, os \in OsTypes :
        LET cmds == StripNonBlank(SplitLines(text))
            u == first_unsafe(cmds, os)
        IN /\ commands_str' = text
           /\ os_type' = os
           /\ cmd_index' = 1
           /\ full_output' = ""
           /\ error_occurred' = FALSE
           /\ is_cisco_config_session' = FALSE
           /\ sent' = <<>>
           /\ outcomes' = <<>>
           /\ IF client = "None"
              THEN /\ commands_to_execute' = <<>>
                   /\ is_safe_calls' = <<>>
                   /\ result' = Returned(None, StatusNotConnected)
                   /\ pc' = "returned"
              ELSE IF cmds = <<>>
              THEN /\ commands_to_execute' = cmds
                   /\ is_safe_calls' = <<>>
                   /\ result' = Returned(Some(""), StatusNoCommands)
                   /\ pc' = "returned"
              ELSE IF u > 0
              THEN /\ commands_to_execute' = cmds
                   /\ is_safe_calls' = SubSeq(cmds, 1, u)
                   /\ result' = Returned(None, StatusUnsafe(cmds[u]))
                   /\ pc' = "returned"
              ELSE /\ commands_to_execute' = cmds
                   /\ is_safe_calls' = cmds
                   /\ result' = NoResult
                   /\ pc' = IF os = "cisco_ios" /\ any_needs_config_mode(cmds, os)
                            THEN "enter_config" ELSE "send"
    /\ UNCHANGED connector_vars
    /\ UNCHANGED validator_vars
    /\ UNCHANGED feedback_vars
    /\ UNCHANGED context_vars
    /\ UNCHANGED parser_vars
    /\ UNCHANGED security_vars

\* Entering Cisco configuration mode: 'configure terminal' and the check of
\* its response.  The client is not None during a call, so the response is
\* a text.
EnterConfigMode ==
    /\ pc = "enter_config"
    /\ \E o \in ExecOutcomes(session_active) :
        LET conf_t_output == execute_command(client, o)
            transcript == full_output \o "configure terminal\n" \o Format(conf_t_output) \o "\n"
        IN /\ sent' = Append(sent, "configure terminal")
           /\ outcomes' = Append(outcomes, o)
           /\ full_output' = transcript
           /\ IF config_entry_failed(conf_t_output[1])
              THEN /\ result' = Returned(Some(transcript), StatusEntryFailed)
                   /\ pc' = "returned"
                   /\ UNCHANGED is_cisco_config_session
              ELSE /\ is_cisco_config_session' = TRUE
                   /\ pc' = "send"
                   /\ UNCHANGED result
    /\ UNCHANGED <<commands_str, os_type, commands_to_execute, is_safe_calls, cmd_index,
                   error_occurred>>
    /\ UNCHANGED connector_vars
    /\ UNCHANGED validator_vars
    /\ UNCHANGED feedback_vars
    /\ UNCHANGED context_vars
    /\ UNCHANGED parser_vars
    /\ UNCHANGED security_vars

\* One round of the loop over commands_to_execute.  The error check finds
\* potential errors and only reports them: error_occurred is not assigned.
ExecuteCommand ==
    /\ pc = "send"
    /\ \E o \in ExecOutcomes(session_active) :
        LET cmd == commands_to_execute[cmd_index]
            output == execute_command(client, o)
        IN /\ sent' = Append(sent, cmd)
           /\ outcomes' = Append(outcomes, o)
           /\ full_output' = full_output \o transcript_entry(cmd, output)
           /\ error_occurred' = IF potential_error(output) THEN error_occurred
                                ELSE error_occurred
           /\ IF loop_continues(cmd_index, commands_to_execute, output)
              THEN /\ cmd_index' = cmd_index + 1
                   /\ pc' = "send"
              ELSE /\ cmd_index' = cmd_index
                   /\ pc' = IF is_cisco_config_session THEN "exit_config" ELSE "finish"
    /\ UNCHANGED <<commands_str, os_type, commands_to_execute, is_safe_calls,
                   is_cisco_config_session, result>>
    /\ UNCHANGED connector_vars
    /\ UNCHANGED validator_vars
    /\ UNCHANGED feedback_vars
    /\ UNCHANGED context_vars
    /\ UNCHANGED parser_vars
    /\ UNCHANGED security_vars

\* Variant of ExitConfigMode with a fault: 'end' is not sent after a command
\* whose output held a potential error.
ExitConfigModeUnlessError ==
    /\ pc = "exit_config"
    /\ \E o \in ExecOutcomes(session_active) :
        LET end_output == execute_command(client, o)
            failed == \E k \in 1..Len(outcomes) :
                          potential_error(execute_command(client, outcomes[k]))
        IN IF failed
           THEN UNCHANGED <<sent, outcomes, full_output>>
           ELSE /\ sent' = Append(sent, "end")
                /\ outcomes' = Append(outcomes, o)
                /\ full_output' = full_output \o "end\n" \o Format(end_output) \o "\n"
    /\ pc' = "finish"
    /\ UNCHANGED <<commands_str, os_type, commands_to_execute, is_safe_calls, cmd_index,
                   error_occurred, is_cisco_config_session, result>>
    /\ UNCHANGED connector_vars
    /\ UNCHANGED validator_vars
    /\ UNCHANGED feedback_vars
    /\ UNCHANGED context_vars
    /\ UNCHANGED parser_vars
    /\ UNCHANGED security_vars

\* Leaving Cisco configuration mode: 'end'.
ExitConfigMode ==
    /\ pc = "exit_config"
    /\ \E o \in ExecOutcomes(session_active) :
        LET end_output == execute_command(client, o)
        IN /\ sent' = Append(sent, "end")
           /\ outcomes' = Append(outcomes, o)
           /\ full_output' = full_output \o "end\n" \o Format(end_output) \o "\n"
    /\ pc' = "finish"
    /\ UNCHANGED <<commands_str, os_type, commands_to_execute, is_safe_calls, cmd_index,
                   error_occurred, is_cisco_config_session, result>>
    /\ UNCHANGED connector_vars
    /\ UNCHANGED validator_vars
    /\ UNCHANGED feedback_vars
    /\ UNCHANGED context_vars
    /\ UNCHANGED parser_vars
    /\ UNCHANGED security_vars

\* The final return of execute_commands_on_device.
Return ==
    /\ pc = "finish"
    /\ result' = Returned(Some(full_output),
                          IF error_occurred THEN StatusFailed ELSE StatusSuccess)
    /\ pc' = "returned"
    /\ UNCHANGED <<commands_str, os_type, commands_to_execute, is_safe_calls, cmd_index,
                   full_output, error_occurred, is_cisco_config_session, sent, outcomes>>
    /\ UNCHANGED connector_vars
    /\ UNCHANGED validator_vars
    /\ UNCHANGED feedback_vars
    /\ UNCHANGED context_vars
    /\ UNCHANGED parser_vars
    /\ UNCHANGED security_vars

\* The caller has consumed the returned pair: the locals of the call are gone
\* and the executor, which keeps no history, is ready for the next call.
Discard ==
    /\ pc = "returned"
    /\ pc' = "idle"
    /\ commands_str' = ""
    /\ os_type' = "linux"
    /\ commands_to_execute' = <<>>
    /\ is_safe_calls' = <<>>
    /\ cmd_index' = 1
    /\ full_output' = ""
    /\ error_occurred' = FALSE
    /\ is_cisco_config_session' = FALSE
    /\ sent' = <<>>
    /\ outcomes' = <<>>
    /\ result' = NoResult
    /\ UNCHANGED connector_vars
    /\ UNCHANGED validator_vars
    /\ UNCHANGED feedback_vars
    /\ UNCHANGED context_vars
    /\ UNCHANGED parser_vars
    /\ UNCHANGED security_vars

Next ==
    \/ connect
    \/ disconnect
    \/ Submit
    \/ EnterConfigMode
    \/ ExecuteCommand
    \/ ExitConfigMode
    \/ Return
    \/ Discard

Spec == Init /\ [][Next]_vars

(***************************************************************************)
(* The safety classifier on its own: one call of is_safe on a command line *)
(* and a dialect drawn from the inputs below.                              *)
(***************************************************************************)
RECURSIVE BlankLines(_)
\* The whitespace-only lines of length n.
BlankLines(n) ==
    IF n = 0 THEN {""}
    ELSE {b \o c : b \in BlankLines(n - 1), c \in {" ", "\t"}}

ValidatorCores ==
    {"rm -rf", "RM -rf", "rm  \t-rf", "rm -r", "mkfs", "fdisk", "dd", "Reboot",
     "shutdown", "poweroff",
     "erase startup-config", "delete flash:", "reload", "Reload", "write erase", "write",
     "delete rulebase", "request system private-data-reset",
     "show ip interface brief", "ls -l"}
ValidatorPrefixes == {"", "x", "sudo "}
ValidatorSuffixes == {"", "x", " /tmp/x"}

\* Command lines around the configuration keywords of Cisco IOS.
ConfigCores ==
    {"interface", "router ospf", "ip route", "access-list", "crypto map", "snmp-server",
     "logging host", "ntp server", "hostname", "banner motd", "enable secret", "line vty",
     "ip address", "Interface", "set", "SET", "settings", "hostname reload",
     "no interface", "router", "ping"}
ConfigPrefixes == {"", " ", "x"}
ConfigSuffixes == {"", " 1", " "}

ValidatorCommands ==
    UNION {BlankLines(n) : n \in 0..MaxBlank}
    \cup {p \o c \o x : p \in ValidatorPrefixes, c \in ValidatorCores, x \in ValidatorSuffixes}
    \cup {p \o c \o x : p \in ConfigPrefixes, c \in ConfigCores, x \in ConfigSuffixes}

InitValidator ==
    /\ client = "None"
    /\ session_active = FALSE
    /\ pc = "idle"
    /\ commands_str = ""
    /\ os_type = "linux"
    /\ commands_to_execute = <<>>
    /\ is_safe_calls = <<>>
    /\ cmd_index = 1
    /\ full_output = ""
    /\ error_occurred = FALSE
    /\ is_cisco_config_session = FALSE
    /\ sent = <<>>
    /\ outcomes = <<>>
    /\ result = NoResult
    /\ v_command \in ValidatorCommands
    /\ v_os_type \in OsTypes
    /\ v_is_safe = None
    /\ v_needs_config = None
    /\ f_command = ""
    /\ f_output = None
    /\ f_os_type = "linux"
    /\ f_result = None
    /\ context = EmptyContext
    /\ gather_calls = <<>>
    /\ p_output = None
    /\ p_cisco = None
    /\ p_linux = None
    /\ credentials = NoCredentials
    /\ environ = NoEnvironment
    /\ credential_calls = <<>>

\* A call of CommandValidator.is_safe.
IsSafeCall ==
    /\ v_is_safe = None
    /\ v_is_safe' = Some(is_safe(v_command, v_os_type))
    /\ UNCHANGED <<v_command, v_os_type, v_needs_config>>
    /\ UNCHANGED connector_vars
    /\ UNCHANGED executor_vars
    /\ UNCHANGED feedback_vars
    /\ UNCHANGED context_vars
    /\ UNCHANGED parser_vars
    /\ UNCHANGED security_vars

\* A call of CommandValidator.needs_config_mode.
NeedsConfigModeCall ==
    /\ v_needs_config = None
    /\ v_needs_config' = Some(needs_config_mode(v_command, v_os_type))
    /\ UNCHANGED <<v_command, v_os_type, v_is_safe>>
    /\ UNCHANGED connector_vars
    /\ UNCHANGED executor_vars
    /\ UNCHANGED feedback_vars
    /\ UNCHANGED context_vars
    /\ UNCHANGED parser_vars
    /\ UNCHANGED security_vars

NextValidator ==
    \/ IsSafeCall
    \/ NeedsConfigModeCall

SpecValidator == InitValidator /\ [][NextValidator]_vars

(***************************************************************************)
(* The feedback parser on its own: one call of parse_output on a command,  *)
(* a response and a dialect drawn from the inputs below.                   *)
(***************************************************************************)
\* The most lines a response has.
MaxResponseLines == 2

FeedbackCommands ==
    {"show version", "apt install foo", "apt-get install foo", "sudo apt install foo",
     "useradd bob"}

FeedbackLines ==
    {"ok", "Error: x", "% Invalid input detected", "Command FAILED", "it failed",
     "% Incomplete command.", "% Ambiguous command", "% Unknown command",
     "%SYS-5-CONFIG_I: Configured from console by console",
     "E: Unable to locate package foo", "useradd: user 'bob' already exists",
     "  invalid syntax", "<response status=\"error\" code=\"19\">"}

RECURSIVE ResponseTexts(_)
\* The texts of exactly n lines.
ResponseTexts(n) ==
    IF n = 0 THEN {""}
    ELSE IF n = 1 THEN FeedbackLines
    ELSE {t \o "\n" \o l : t \in ResponseTexts(n - 1), l \in FeedbackLines}

FeedbackOutputs ==
    {None} \cup {Some(t) : t \in UNION {ResponseTexts(n) : n \in 0..MaxResponseLines}}

InitFeedback ==
    /\ client = "None"
    /\ session_active = FALSE
    /\ pc = "idle"
    /\ commands_str = ""
    /\ os_type = "linux"
    /\ commands_to_execute = <<>>
    /\ is_safe_calls = <<>>
    /\ cmd_index = 1
    /\ full_output = ""
    /\ error_occurred = FALSE
    /\ is_cisco_config_session = FALSE
    /\ sent = <<>>
    /\ outcomes = <<>>
    /\ result = NoResult
    /\ v_command = ""
    /\ v_os_type = "linux"
    /\ v_is_safe = None
    /\ v_needs_config = None
    /\ f_command \in FeedbackCommands
    /\ f_output \in FeedbackOutputs
    /\ f_os_type \in OsTypes
    /\ f_result = None
    /\ context = EmptyContext
    /\ gather_calls = <<>>
    /\ p_output = None
    /\ p_cisco = None
    /\ p_linux = None
    /\ credentials = NoCredentials
    /\ environ = NoEnvironment
    /\ credential_calls = <<>>

\* A call of FeedbackParser.parse_output.
ParseOutputCall ==
    /\ f_result = None
    /\ f_result' = Some(parse_output(f_command, f_output, f_os_type))
    /\ UNCHANGED <<f_command, f_output, f_os_type>>
    /\ UNCHANGED connector_vars
    /\ UNCHANGED executor_vars
    /\ UNCHANGED validator_vars
    /\ UNCHANGED context_vars
    /\ UNCHANGED parser_vars
    /\ UNCHANGED security_vars

NextFeedback == ParseOutputCall

SpecFeedback == InitFeedback /\ [][NextFeedback]_vars

(***************************************************************************)
(* The context builder on a connector: gather_context calls for dialects   *)
(* and devices drawn from the inputs below.                                *)
(***************************************************************************)
\* The most gather_context calls on one builder.
MaxGatherCalls == 2

LinuxHost ==
    [hostname |-> "web1\n",
     version |-> "Ubuntu 22.04 LTS\n",
     interfaces |->
         "1: lo: <LOOPBACK,UP> mtu 65536\n    inet 127.0.0.1/8 scope host lo\n"
         \o "2: eth0: <BROADCAST,UP> mtu 1500 state UP group default\n"
         \o "    inet 192.168.1.100/24 brd 192.168.1.255\n"
         \o "3: docker0: <NO-CARRIER,UP> mtu 1500\n"]

CiscoRouter ==
    [hostname |-> "hostname Router1\n",
     version |-> "Cisco IOS Software, C2960S Software (C2960S-UNIVERSALK9-M), "
                 \o "Version 15.0(2)SE4, RELEASE SOFTWARE (fc1)\n",
     interfaces |->
         "Interface IP-Address OK? Method Status Protocol\n"
         \o "Gi0/0 192.168.1.1 YES manual up up\n"
         \o "Gi0/1 unassigned YES unset administratively down down\n"]

\* A Cisco device whose version line has no commas.
CiscoOld ==
    [hostname |-> "hostname R2",
     version |-> "IOS (tm) C2600 Software",
     interfaces |-> "Gi0/0 10.0.0.2 YES manual up up"]

\* A device that answers every command with an empty text.
SilentDevice == [hostname |-> "", version |-> "", interfaces |-> ""]

PaloAlto ==
    [hostname |-> "hostname: PA-VM-1\n", version |-> "sw-version: 10.1.0\n",
     interfaces |-> ""]

Devices == {LinuxHost, CiscoRouter, CiscoOld, SilentDevice, PaloAlto}

ContextOsTypes == {"linux", "cisco_ios", "paloalto_panos", "LINUX", "windows"}

\* A builder on a connector without a client, with a client whose session is
\* open, or with a client whose session was closed.
InitContext ==
    /\ client \in {"None", "SSHClient"}
    /\ session_active \in BOOLEAN
    /\ (client = "None") => ~ session_active
    /\ pc = "idle"
    /\ commands_str = ""
    /\ os_type = "linux"
    /\ commands_to_execute = <<>>
    /\ is_safe_calls = <<>>
    /\ cmd_index = 1
    /\ full_output = ""
    /\ error_occurred = FALSE
    /\ is_cisco_config_session = FALSE
    /\ sent = <<>>
    /\ outcomes = <<>>
    /\ result = NoResult
    /\ v_command = ""
    /\ v_os_type = "linux"
    /\ v_is_safe = None
    /\ v_needs_config = None
    /\ f_command = ""
    /\ f_output = None
    /\ f_os_type = "linux"
    /\ f_result = None
    /\ context = EmptyContext
    /\ gather_calls = <<>>
    /\ p_output = None
    /\ p_cisco = None
    /\ p_linux = None
    /\ credentials = NoCredentials
    /\ environ = NoEnvironment
    /\ credential_calls = <<>>

\* A call of ContextBuilder.gather_context on a device.
GatherContext ==
    /\ Len(gather_calls) < MaxGatherCalls
    /\ \E os \in ContextOsTypes, device \in Devices :
           LET g == gather_context(context, client, device, session_active, os)
           IN /\ context' = g.context
              /\ gather_calls' =
                     Append(gather_calls,
                            [os_type |-> os, device |-> device, client |-> client,
                             active |-> session_active, before |-> context,
                             sent |-> g.sent, returned |-> g.returned,
                             snapshot |-> g.context])
    /\ UNCHANGED connector_vars
    /\ UNCHANGED executor_vars
    /\ UNCHANGED validator_vars
    /\ UNCHANGED feedback_vars
    /\ UNCHANGED parser_vars
    /\ UNCHANGED security_vars

NextContext == GatherContext

SpecContext == InitContext /\ [][NextContext]_vars

(***************************************************************************)
(* The two interface parsers on their own: one call of each on a device    *)
(* response drawn from the tables below.                                   *)
(***************************************************************************)
\* The most lines a table has.
MaxTableLines == 3

CiscoLines ==
    {"Interface              IP-Address      OK? Method Status                Protocol",
     "GigabitEthernet0/0     192.168.1.1     YES manual up                    up      ",
     "GigabitEthernet0/1     unassigned      YES unset  administratively down down    ",
     "Vlan1 10.0.0.1 YES manual up up",
     "Router#show ip interface brief"}

LinuxLines ==
    {"1: lo: <LOOPBACK,UP> state UNKNOWN",
     "    inet 127.0.0.1/8 scope host lo",
     "2: eth0: <BROADCAST,UP> state UP",
     "    inet 192.168.1.100/24 brd 192.168.1.255",
     "    inet 10.0.0.5/8",
     "    inet6 fe80::1/64 scope link",
     "3: docker0: <NO-CARRIER,UP>",
     "2: eth0",
     "garbage:"}

RECURSIVE TableTexts(_, _)
\* The texts of exactly n of the lines, each ended by a line break.
TableTexts(lines, n) ==
    IF n = 0 THEN {""}
    ELSE {t \o l \o "\n" : t \in TableTexts(lines, n - 1), l \in lines}

InitParsers ==
    /\ client = "None"
    /\ session_active = FALSE
    /\ pc = "idle"
    /\ commands_str = ""
    /\ os_type = "linux"
    /\ commands_to_execute = <<>>
    /\ is_safe_calls = <<>>
    /\ cmd_index = 1
    /\ full_output = ""
    /\ error_occurred = FALSE
    /\ is_cisco_config_session = FALSE
    /\ sent = <<>>
    /\ outcomes = <<>>
    /\ result = NoResult
    /\ v_command = ""
    /\ v_os_type = "linux"
    /\ v_is_safe = None
    /\ v_needs_config = None
    /\ f_command = ""
    /\ f_output = None
    /\ f_os_type = "linux"
    /\ f_result = None
    /\ context = EmptyContext
    /\ gather_calls = <<>>
    /\ p_output \in {Some(t) : t \in UNION {TableTexts(CiscoLines, n) \cup TableTexts(LinuxLines, n)
                                            : n \in 0..MaxTableLines}}
    /\ p_cisco = None
    /\ p_linux = None
    /\ credentials = NoCredentials
    /\ environ = NoEnvironment
    /\ credential_calls = <<>>

\* A call of ContextBuilder._parse_cisco_interfaces.
ParseCiscoInterfacesCall ==
    /\ p_cisco = None
    /\ p_cisco' = Some(parse_cisco_interfaces(p_output[1]))
    /\ UNCHANGED <<p_output, p_linux>>
    /\ UNCHANGED <<connector_vars, executor_vars, validator_vars, feedback_vars,
                   context_vars, security_vars>>

\* A call of ContextBuilder._parse_linux_interfaces.
ParseLinuxInterfacesCall ==
    /\ p_linux = None
    /\ p_linux' = Some(parse_linux_interfaces(p_output[1]))
    /\ UNCHANGED <<p_output, p_cisco>>
    /\ UNCHANGED <<connector_vars, executor_vars, validator_vars, feedback_vars,
                   context_vars, security_vars>>

NextParsers ==
    \/ ParseCiscoInterfacesCall
    \/ ParseLinuxInterfacesCall

SpecParsers == InitParsers /\ [][NextParsers]_vars

(***************************************************************************)
(* Credential resolution.  The store is the one the constructor loaded     *)
(* from the credential file, any JSON object of entries; the environment   *)
(* is the one of the process.  set_device_credentials with save=True also  *)
(* writes the store to the file, which no later step reads.                *)
(***************************************************************************)
MaxCredentialCalls == 2

\* An entry of a loaded store: none, a plain one, one marked
\* 'password_encrypted' with and without the 'password' key, an empty one.
StoredEntries ==
    {None,
     Some(PlainEntry("user1", "pass1")),
     Some([username |-> Some("user1"), password |-> Some("pass1"),
           password_encrypted |-> Some("gAAAAA")]),
     Some([username |-> Some("user1"), password |-> None,
           password_encrypted |-> Some("gAAAAA")]),
     Some([username |-> None, password |-> None, password_encrypted |-> None])}

EnvValues == {None, Some(""), Some("env_user_val")}

InitSecurity ==
    /\ client = "None"
    /\ session_active = FALSE
    /\ pc = "idle"
    /\ commands_str = ""
    /\ os_type = "linux"
    /\ commands_to_execute = <<>>
    /\ is_safe_calls = <<>>
    /\ cmd_index = 1
    /\ full_output = ""
    /\ error_occurred = FALSE
    /\ is_cisco_config_session = FALSE
    /\ sent = <<>>
    /\ outcomes = <<>>
    /\ result = NoResult
    /\ v_command = ""
    /\ v_os_type = "linux"
    /\ v_is_safe = None
    /\ v_needs_config = None
    /\ f_command = ""
    /\ f_output = None
    /\ f_os_type = "linux"
    /\ f_result = None
    /\ context = EmptyContext
    /\ gather_calls = <<>>
    /\ p_output = None
    /\ p_cisco = None
    /\ p_linux = None
    /\ credentials \in [DeviceIds -> StoredEntries]
    /\ environ \in [EnvNames -> EnvValues]
    /\ credential_calls = <<>>

GetDeviceCredentials ==
    /\ Len(credential_calls) < MaxCredentialCalls
    /\ \E device_identifier \in DeviceIds :
           LET r == get_device_credentials(credentials, environ, device_identifier)
           IN credential_calls' =
                  Append(credential_calls,
                         [device_identifier |-> device_identifier,
                          stored |-> credentials[device_identifier],
                          returned |-> r.returned,
                          getenv_calls |-> r.getenv_calls])
    /\ UNCHANGED <<credentials, environ>>
    /\ UNCHANGED <<connector_vars, executor_vars, validator_vars, feedback_vars,
                   context_vars, parser_vars>>

SetDeviceCredentials ==
    /\ \E device_identifier \in DeviceIds :
           credentials' = set_device_credentials(credentials, device_identifier,
                                                 "user3", "pass3")
    /\ UNCHANGED <<environ, credential_calls>>
    /\ UNCHANGED <<connector_vars, executor_vars, validator_vars, feedback_vars,
                   context_vars, parser_vars>>

NextSecurity ==
    \/ GetDeviceCredentials
    \/ SetDeviceCredentials

SpecSecurity == InitSecurity /\ [][NextSecurity]_vars

(***************************************************************************)
(* Properties                                                              *)
(***************************************************************************)
IsPrefix(a, b) == Len(a) <= Len(b) /\ a = SubSeq(b, 1, Len(a))

\* The call was made on a connected device with at least one command.
BatchSubmitted == client # "None" /\ commands_to_execute # <<>>

\* The commands a submitted text can hold, with the verdicts of the
\* validator on each of them.
BatchCommands == {Strip(l) : l \in RawLines} \ {""}
Verdict == [c \in BatchCommands |-> [os \in OsTypes |-> is_safe(c, os)]]
ConfigVerdict == [c \in BatchCommands |-> [os \in OsTypes |-> needs_config_mode(c, os)]]

Safe(k) == Verdict[commands_to_execute[k]][os_type]
RequiresConfig(k) == ConfigVerdict[commands_to_execute[k]][os_type]

AllSafe == \A k \in 1..Len(commands_to_execute) : Safe(k)

\* Some command of the batch requires configuration mode and the dialect has one.
NeedsConfig ==
    /\ os_type = "cisco_ios"
    /\ \E k \in 1..Len(commands_to_execute) : RequiresConfig(k)

\* The text the connector returned for the k-th send of the call.
Reply(k) == Format(execute_command(client, outcomes[k]))

\* The number of sends that precede the batch commands.
Offset == IF Len(sent) > 0 /\ NeedsConfig THEN 1 ELSE 0

\* The positions, among the sends made so far, of the batch commands.
BatchPositions ==
    {k \in 1..Len(sent) : k > Offset /\ k <= Offset + Len(commands_to_execute)}

ExpectedConfigSends == <<"configure terminal">> \o commands_to_execute \o <<"end">>

Acknowledged ==
    /\ Len(outcomes) >= 1
    /\ Contains("Enter configuration commands", Reply(1))

\* C1: when is_safe rejects a command of a batch submitted on a connected
\* device, at any position, nothing is sent to the transport and the call
\* returns (None, "Command '<cmd>' is unsafe.") naming the first rejected
\* command in submission order.
C1_UnsafeBatchSendsNothing ==
    (BatchSubmitted /\ ~ AllSafe) =>
        LET first == CHOOSE k \in 1..Len(commands_to_execute) :
                        ~ Safe(k) /\ \A j \in 1..(k - 1) : Safe(j)
        IN /\ sent = <<>>
           /\ pc = "returned"
           /\ result = [output |-> None,
                        status |-> "Command '" \o commands_to_execute[first] \o "' is unsafe."]

\* A batch whose second command is the first unsafe one was refused.
C1_Witness ==
    /\ pc = "returned"
    /\ client # "None"
    /\ Len(commands_to_execute) = 3
    /\ Safe(1)
    /\ ~ Safe(2)
    /\ sent = <<>>
    /\ result.output = None

\* C2: for cisco_ios, an all-safe batch c1..cn with a command that requires
\* configuration mode, at any position, and an acknowledged mode entry makes
\* the transport receive exactly 'configure terminal', c1, ..., cn, 'end':
\* at every moment the sends are a prefix of that sequence, and at the
\* return they are the whole of it.
C2_ConfigModeBracketsBatch ==
    (BatchSubmitted /\ AllSafe /\ NeedsConfig /\ Acknowledged) =>
        /\ IsPrefix(sent, ExpectedConfigSends)
        /\ pc = "returned" => sent = ExpectedConfigSends

\* Only the second of three commands requires configuration mode.
C2_Witness ==
    /\ pc = "returned"
    /\ BatchSubmitted /\ AllSafe /\ Acknowledged
    /\ Len(commands_to_execute) = 3
    /\ ~ RequiresConfig(1)
    /\ RequiresConfig(2)
    /\ ~ RequiresConfig(3)
    /\ Len(sent) = 5
    /\ sent[1] = "configure terminal"
    /\ sent[5] = "end"

\* C3: when a cisco_ios batch needs configuration mode and the response to
\* 'configure terminal' does not contain 'Enter configuration commands',
\* whatever else it contains, nothing is sent after the entry attempt and
\* the status is 'Failed to enter Cisco config mode.'.
C3_UnacknowledgedEntryAborts ==
    (BatchSubmitted /\ AllSafe /\ NeedsConfig /\ Len(outcomes) >= 1 /\ ~ Acknowledged) =>
        /\ sent = <<"configure terminal">>
        /\ pc = "returned"
        /\ result.status = "Failed to enter Cisco config mode."

\* C4: whenever configuration mode was entered for a batch, 'end' is sent
\* exactly once, after the last command of the batch and as the last send of
\* the call, whatever the responses to the commands were.
C4_ConfigModeAlwaysExited ==
    is_cisco_config_session =>
        /\ IsPrefix(sent, ExpectedConfigSends)
        /\ pc \in {"send", "exit_config"} => Len(sent) <= Len(commands_to_execute) + 1
        /\ pc \in {"finish", "returned"} => sent = ExpectedConfigSends

\* Configuration mode was left although a command in it answered with an error.
C4_Witness ==
    /\ pc = "returned"
    /\ is_cisco_config_session
    /\ \E k \in BatchPositions : potential_error(Some(Reply(k)))
    /\ sent[Len(sent)] = "end"

\* The batch passed validation and the entry into configuration mode, where
\* one was needed, did not fail.
Accepted == BatchSubmitted /\ AllSafe /\ (NeedsConfig => is_cisco_config_session)

\* The batch commands sent so far.
BatchSent ==
    SubSeq(sent, Offset + 1,
           IF Len(sent) < Offset + Len(commands_to_execute)
           THEN Len(sent) ELSE Offset + Len(commands_to_execute))

\* C5: in an accepted batch every command is sent, in submission order, also
\* after a response that indicates a failure: the commands sent are at every
\* moment the first ones of the batch, and once the loop is over they are
\* all of them.
C5_FailingResponseNeverStopsBatch ==
    Accepted =>
        /\ IsPrefix(BatchSent, commands_to_execute)
        /\ pc \in {"exit_config", "finish", "returned"} => BatchSent = commands_to_execute

\* The response to the first of several commands indicated an error and the
\* rest was sent all the same.
C5_Witness ==
    /\ pc = "returned"
    /\ Accepted
    /\ Len(commands_to_execute) >= 2
    /\ potential_error(Some(Reply(Offset + 1)))
    /\ BatchSent = commands_to_execute

\* C6: the status of a completed batch is 'One or more commands may have
\* failed.' if the response to at least one command of the batch indicates
\* an error, and 'Commands executed successfully.' only if none does.
C6_StatusReportsFailure ==
    (pc = "returned" /\ Accepted) =>
        LET failed == \E k \in BatchPositions : potential_error(Some(Reply(k)))
        IN result.status = IF failed THEN "One or more commands may have failed."
                           ELSE "Commands executed successfully."

RECURSIVE ExpectedTranscript(_)
\* One '$ <command>' line and the command's own response for each of the
\* first n sends, in the order of the sends.
ExpectedTranscript(n) ==
    IF n = 0 THEN ""
    ELSE ExpectedTranscript(n - 1) \o "$ " \o sent[n] \o "\n" \o Reply(n) \o "\n"

\* C7: for an all-safe batch with no command requiring configuration mode
\* the transport receives c1..cn in that order, each exactly once, and the
\* returned transcript is the concatenation, in that order, of one
\* '$ <command>' line followed by that command's own response.
C7_OrderPreserved ==
    (BatchSubmitted /\ AllSafe /\ ~ NeedsConfig) =>
        /\ IsPrefix(sent, commands_to_execute)
        /\ full_output = ExpectedTranscript(Len(sent))
        /\ pc \in {"finish", "returned"} => sent = commands_to_execute
        /\ pc = "returned" => result.output = Some(ExpectedTranscript(Len(commands_to_execute)))

\* Three commands were answered differently and returned in order.
C7_Witness ==
    /\ pc = "returned"
    /\ BatchSubmitted /\ AllSafe /\ ~ NeedsConfig
    /\ Len(commands_to_execute) = 3
    /\ sent = commands_to_execute
    /\ outcomes[1] # outcomes[2]
    /\ outcomes[2] # outcomes[3]

\* C8: a transport-level send failure is fatal for the batch: after a send
\* of a batch command that failed (exec_command raised, with or without an
\* open session) no later command is sent and the batch is not reported as
\* 'Commands executed successfully.'.
C8_SendFailureIsFatal ==
    Accepted =>
        \A k \in BatchPositions :
            outcomes[k].raised =>
                /\ Len(sent) = k
                /\ result.status # "Commands executed successfully."

IsBlank(s) == \A i \in 1..Len(s) : CharAt(s, i) \in {" ", "\t", "\n", "\r", "\f"}

\* C9: for every os_type, is_safe returns false for the empty command line
\* and for every command line consisting only of whitespace.
C9_BlankIsUnsafe ==
    (v_is_safe # None /\ IsBlank(v_command)) => v_is_safe = Some(FALSE)

\* A whitespace-only line was classified for an os_type without patterns.
C9_Witness ==
    /\ v_is_safe = Some(FALSE)
    /\ v_command = " \t"
    /\ v_os_type = "junos"

\* Some destructive pattern of the dialect matches the lower-cased line
\* somewhere.
MatchesDialect(command, os) ==
    /\ os \in {"linux", "cisco_ios", "paloalto_panos"}
    /\ \E k \in 1..Len(destructive_patterns[os]) :
           \E i \in 1..(Len(command) + 1) :
               MatchHere(destructive_patterns[os][k], 1, ToLower(command), i, NOFLAGS)

\* C10: for each dialect and every non-blank command line, is_safe returns
\* false if and only if the line matches, ignoring letter case and anywhere
\* in the line, a pattern of that dialect's destructive-pattern list;
\* 'reload' is unsafe for cisco_ios, 'RM -rf /tmp/x' for linux, and
\* 'show ip interface brief' is safe for cisco_ios.
C10_UnsafeIffDialectPattern ==
    (v_is_safe # None /\ ~ IsBlank(v_command)) =>
        /\ v_is_safe = Some(~ MatchesDialect(v_command, v_os_type))
        /\ (v_command = "reload" /\ v_os_type = "cisco_ios") => v_is_safe = Some(FALSE)
        /\ (v_command = "RM -rf /tmp/x" /\ v_os_type = "linux") => v_is_safe = Some(FALSE)
        /\ (v_command = "show ip interface brief" /\ v_os_type = "cisco_ios")
               => v_is_safe = Some(TRUE)
        /\ (v_command = "reload" /\ v_os_type = "linux") => v_is_safe = Some(TRUE)

\* An upper-case destructive command was classified for its dialect.
C10_Witness ==
    /\ v_command = "RM -rf /tmp/x"
    /\ v_os_type = "linux"
    /\ v_is_safe = Some(FALSE)

\* The configuration keywords of Cisco IOS.
ConfigKeywords ==
    {"interface", "router ospf", "ip route", "access-list", "crypto map", "snmp-server",
     "logging host", "ntp server", "hostname", "banner motd", "enable secret", "line vty",
     "ip address"}

\* The line, trimmed and lower-cased, starts with a configuration keyword or
\* with 'set '.
StartsWithConfigKeyword(command) ==
    LET line == ToLower(Strip(command))
    IN \/ \E kw \in ConfigKeywords : Len(kw) <= Len(line) /\ SubSeq(line, 1, Len(kw)) = kw
       \/ Len(line) >= 4 /\ SubSeq(line, 1, 4) = "set "

Parsed == f_result # None /\ f_output # None

ResponseText == f_output[1]

GenericErrorSet ==
    {"error:", "% invalid input", "command rejected", "unknown command", "failure", "failed"}

\* The text contains the phrase, ignoring letter case.
Mentions(phrase, text) ==
    LET folded == ToLower(text)
    IN \E i \in 1..(Len(folded) - Len(phrase) + 1) :
           SubSeq(folded, i, i + Len(phrase) - 1) = phrase

\* The first line of the text that mentions the phrase, None without one.
FirstLineMentioning(phrase, text) ==
    LET lines == SplitLines(text)
        hits == {i \in 1..Len(lines) : Mentions(phrase, lines[i])}
    IN IF hits = {} THEN None
       ELSE Some(lines[CHOOSE i \in hits : \A j \in hits : i <= j])

HasGenericError == \E kw \in GenericErrorSet : Mentions(kw, ResponseText)

\* C12: for every command and every dialect, parse_output of an absent
\* response returns a failure verdict whose message says that no output was
\* received; the verdict is the same record whatever the dialect is, and it
\* has no error_line.
C12_AbsentResponseIsFailure ==
    (f_result # None /\ f_output = None) =>
        /\ f_result[1].success = FALSE
        /\ Contains("No output received", f_result[1].message)
        /\ f_result[1].error_line = None
        /\ f_result[1] =
               [success |-> FALSE,
                message |-> "No output received from device (connection issue or command produced no STDOUT/STDERR).",
                data |-> None, error_line |-> None]

\* An absent response of an apt installation on linux was parsed.
C12_Witness ==
    /\ f_output = None
    /\ f_command = "apt install foo"
    /\ f_os_type = "linux"
    /\ f_result # None
    /\ f_result[1].success = FALSE

\* C13: for every dialect, a response that contains, ignoring case, a keyword
\* of the generic error set gets a failure verdict whose message names a
\* keyword the response contains and whose error_line is the first line of
\* the response containing that keyword; no dialect-specific message replaces
\* it.
C13_GenericErrorWins ==
    (Parsed /\ HasGenericError) =>
        /\ f_result[1].success = FALSE
        /\ \E kw \in GenericErrorSet :
               /\ Mentions(kw, ResponseText)
               /\ f_result[1].message =
                      "Potential error detected: '" \o kw \o "' found in output."
               /\ f_result[1].error_line = FirstLineMentioning(kw, ResponseText)

\* A Cisco response with an incomplete-command line followed by a line with
\* the generic keyword 'failed' was parsed: the generic rule won.
C13_Witness ==
    /\ Parsed
    /\ f_os_type = "cisco_ios"
    /\ ResponseText = "% Incomplete command.\nCommand FAILED"
    /\ f_result[1].message = "Potential error detected: 'failed' found in output."
    /\ f_result[1].error_line = Some("Command FAILED")

ConfigNotice == "%SYS-5-CONFIG_I: Configured from console by console"

HasCiscoError ==
    Mentions("incomplete command", ResponseText) \/ Mentions("ambiguous command", ResponseText)

\* C14: for cisco_ios, a response that contains the informational notice
\* '%SYS-5-CONFIG_I: Configured from console by console' and neither a generic
\* error keyword nor a Cisco error phrase is a success with the 'no obvious
\* errors' message.
C14_ConfigNoticeIsBenign ==
    (Parsed /\ f_os_type = "cisco_ios" /\ Contains(ConfigNotice, ResponseText)
        /\ ~ HasGenericError /\ ~ HasCiscoError) =>
        /\ f_result[1].success = TRUE
        /\ f_result[1].message =
               "Command appears to have executed successfully (no obvious errors found)."
        /\ f_result[1].error_line = None

\* A Cisco response of a prompt line and the notice was parsed.
C14_Witness ==
    /\ Parsed
    /\ f_os_type = "cisco_ios"
    /\ ResponseText = "ok\n" \o ConfigNotice
    /\ f_result[1].success = TRUE

\* The verdict is the failure of the Cisco phrase with the message.
CiscoVerdict(phrase, message) ==
    /\ Mentions(phrase, ResponseText)
    /\ f_result[1].message = message
    /\ f_result[1].error_line = FirstLineMentioning(phrase, ResponseText)

IsAptInstall(command) ==
    \E prefix \in {"", "sudo "} : \E tool \in {"apt install", "apt-get install"} :
        LET start == prefix \o tool
        IN Len(start) <= Len(command) /\ SubSeq(command, 1, Len(start)) = start

\* C16: for linux, when the command is an installation with apt ('apt
\* install ...' or 'apt-get install ...', also after 'sudo') and the response
\* contains 'unable to locate package' (ignoring case), the verdict is a
\* failure with a message starting 'Apt install command failed'.
C16_AptInstallFailure ==
    (Parsed /\ f_os_type = "linux" /\ IsAptInstall(f_command)
        /\ Mentions("unable to locate package", ResponseText)) =>
        /\ f_result[1].success = FALSE
        /\ StartsWith(f_result[1].message, "Apt install command failed")

\* The k-th gather_context call on the builder.
Call(k) == gather_calls[k]

SupportedDialects == {"linux", "cisco_ios", "paloalto_panos"}

\* The dialect name in lower-case letters.
Lowered(os) == ToLower(os)

\* The call neither returned a context, nor sent a command, nor changed the
\* builder's context.
NothingGathered(k) ==
    /\ Call(k).returned = "None"
    /\ Call(k).sent = <<>>
    /\ Call(k).snapshot = Call(k).before

\* C17 as stated: gather_context called with an os_type outside {linux,
\* cisco_ios, paloalto_panos} returns None, sends no command and leaves the
\* builder's context as it was.
C17_AsStated ==
    \A k \in 1..Len(gather_calls) :
        Call(k).os_type \notin SupportedDialects => NothingGathered(k)

\* C17: gather_context called with an os_type that, in lower-case letters,
\* is outside {linux, cisco_ios, paloalto_panos} returns None, sends no
\* command and leaves the builder's context exactly as it was before the call.
C17_UnsupportedDialectGathersNothing ==
    \A k \in 1..Len(gather_calls) :
        Lowered(Call(k).os_type) \notin SupportedDialects => NothingGathered(k)

\* A connected builder that holds the facts of a Linux host was asked for
\* the context of a 'windows' device.
C17_Witness ==
    /\ Len(gather_calls) = 2
    /\ Call(2).os_type = "windows"
    /\ Call(2).client = "SSHClient"
    /\ Call(2).before.hostname = Some("web1")
    /\ Call(2).returned = "None"
    /\ context = Call(2).before

\* C18: two gather_context calls in a row for the same dialect, against a
\* transport that gives the same responses to the same commands, return two
\* contexts that are equal field for field (os_type, hostname, os_version and
\* every interface record).
C18_GatherIsIdempotent ==
    \A k \in 1..(Len(gather_calls) - 1) :
        (/\ Lowered(Call(k).os_type) = Lowered(Call(k + 1).os_type)
         /\ Call(k).device = Call(k + 1).device
         /\ Call(k).active = Call(k + 1).active
         /\ Call(k).client = Call(k + 1).client
         /\ Call(k).returned = "self.context") =>
            /\ Call(k + 1).returned = "self.context"
            /\ Call(k + 1).snapshot.os_type = Call(k).snapshot.os_type
            /\ Call(k + 1).snapshot.hostname = Call(k).snapshot.hostname
            /\ Call(k + 1).snapshot.os_version = Call(k).snapshot.os_version
            /\ Call(k + 1).snapshot.interfaces = Call(k).snapshot.interfaces

\* The context of a Linux host was gathered twice in a row over an open
\* session.
C18_Witness ==
    /\ Len(gather_calls) = 2
    /\ Call(1).os_type = "linux" /\ Call(2).os_type = "linux"
    /\ Call(1).device = LinuxHost /\ Call(2).device = LinuxHost
    /\ Call(1).active /\ Call(2).active
    /\ Call(1).returned = "self.context" /\ Call(2).returned = "self.context"
    /\ Call(2).snapshot =
           [os_type |-> Some("linux"), hostname |-> Some("web1"),
            os_version |-> Some("Ubuntu 22.04 LTS"),
            interfaces |->
                Some({[name |-> "eth0", ip_address |-> Some("192.168.1.100/24"),
                       status |-> Some("UP"), protocol |-> None],
                      [name |-> "docker0", ip_address |-> None,
                       status |-> Some("UP"), protocol |-> None]})]

\* C19: a context returned by gather_context is immutable: the value a call
\* returned, which is the dict self.context itself, still has every field it
\* had when it was returned, whatever gather_context calls came later.
C19_ReturnedContextNeverChanges ==
    \A k \in 1..Len(gather_calls) :
        Call(k).returned = "self.context" => context = Call(k).snapshot

\* C20: for every supported dialect and every sequence of text responses,
\* empty ones included, gather_context on a connected builder returns a
\* context, in which the dialect is set: a fact that cannot be extracted is
\* an absent field, never a lost snapshot.
C20_EveryResponseGivesContext ==
    \A k \in 1..Len(gather_calls) :
        (Call(k).client # "None" /\ Call(k).os_type \in SupportedDialects) =>
            /\ Call(k).returned = "self.context"
            /\ Call(k).snapshot.os_type = Some(Call(k).os_type)

\* The lines of the response handed to the parsers.
TableLines == SplitLines(p_output[1])

\* The columns of a table row.
Columns(line) == SplitWhitespace(line)

\* A row of the Cisco table with its six columns or more, the header apart.
IsDataRow(line) == Len(Columns(line)) >= 6 /\ ~ Contains("Interface", Columns(line)[1])

\* The record the claim gives for a data row.
RecordOfRow(line) ==
    LET c == Columns(line)
    IN [name |-> c[1],
        ip_address |-> IF c[2] = "unassigned" THEN None ELSE Some(c[2]),
        status |-> Some(c[Len(c) - 1]),
        protocol |-> Some(c[Len(c)])]

\* C21: the Cisco interface-table parser returns one record for every data
\* row, with name = first column, ip_address = second column or None when it
\* is 'unassigned', status = second-to-last column and protocol = last
\* column ('administratively down down' gives 'down' and 'down'); the header
\* row yields no record, and empty or header-only input yields an empty table.
C21_CiscoRowsBecomeRecords ==
    p_cisco # None =>
        /\ p_cisco[1] = {RecordOfRow(TableLines[i]) :
                            i \in {j \in 1..Len(TableLines) : IsDataRow(TableLines[j])}}
        /\ \A e \in p_cisco[1] :
               /\ ~ Contains("Interface", e.name)
               /\ e.name = "GigabitEthernet0/1" =>
                      (e.ip_address = None /\ e.status = Some("down")
                          /\ e.protocol = Some("down"))
        /\ (\A i \in 1..Len(TableLines) : Contains("Interface", TableLines[i]))
               => p_cisco[1] = {}

\* The header row, a row with an address and an unassigned row that is
\* administratively down were parsed.
C21_Witness ==
    /\ p_cisco =
           Some({[name |-> "GigabitEthernet0/0", ip_address |-> Some("192.168.1.1"),
                  status |-> Some("up"), protocol |-> Some("up")],
                 [name |-> "GigabitEthernet0/1", ip_address |-> None,
                  status |-> Some("down"), protocol |-> Some("down")]})
    /\ Len(TableLines) = 3
    /\ Contains("Interface", TableLines[1])

\* A line of 'ip addr' that opens an interface block.
IsHeader(line) == SubSeq(line, 1, 1) # " " /\ Contains(":", line)

\* The name between the first and the second colon of a header.
HeaderName(line) == Strip(Split(line, ":")[2])

\* The header has its three parts: index, name and details.
IsWellFormed(line) == Len(Split(line, ":")) >= 3

\* The position of the header whose block holds line j, 0 without one.
HeaderBefore(j) ==
    LET hs == {i \in 1..(j - 1) : IsHeader(TableLines[i])}
    IN IF hs = {} THEN 0 ELSE CHOOSE i \in hs : \A k \in hs : k <= i

\* Line j is an 'inet ' line with an address.
IsInetLine(j) ==
    LET words == Columns(TableLines[j])
    IN ~ IsHeader(TableLines[j]) /\ Len(words) >= 2 /\ words[1] = "inet"

InetAddress(j) == Columns(TableLines[j])[2]

\* C22: in the Linux interface-table parser the loopback interface 'lo' never
\* appears in the result, and the lines that follow the header of 'lo' are
\* attributed to no interface: every address in the result is given by an
\* 'inet ' line in the block of the interface that has it.
C22_LoopbackIsSkipped ==
    p_linux # None =>
        \A e \in p_linux[1] :
            /\ e.name # "lo"
            /\ e.ip_address # None =>
                   \E j \in 1..Len(TableLines) :
                       /\ IsInetLine(j)
                       /\ e.ip_address = Some(InetAddress(j))
                       /\ HeaderBefore(j) # 0
                       /\ HeaderName(TableLines[HeaderBefore(j)]) = e.name

\* The header of eth0, then the header of 'lo' and the address of 'lo' were
\* parsed: eth0 is returned without an address.
C22_Witness ==
    /\ p_output = Some("2: eth0: <BROADCAST,UP> state UP\n1: lo: <LOOPBACK,UP> state UNKNOWN\n"
                       \o "    inet 127.0.0.1/8 scope host lo\n")
    /\ p_linux = Some({[name |-> "eth0", ip_address |-> None, status |-> Some("UP"),
                        protocol |-> None]})

InMalformedBlock(j) ==
    IF IsHeader(TableLines[j]) THEN ~ IsWellFormed(TableLines[j])
    ELSE HeaderBefore(j) # 0 /\ ~ IsWellFormed(TableLines[HeaderBefore(j)])

RECURSIVE WellFormedText(_)
\* The response without its malformed blocks, from line j on.
WellFormedText(j) ==
    IF j > Len(TableLines) THEN ""
    ELSE (IF InMalformedBlock(j) THEN "" ELSE TableLines[j] \o "\n") \o WellFormedText(j + 1)

\* C24: in the Linux interface-table parser a malformed header line (not
\* indented, with a colon, without the three parts index, name and details)
\* adds no interface, and the records of the well-formed interfaces are
\* returned as if the malformed block were not in the input.
C24_MalformedBlockIsSkipped ==
    p_linux # None => p_linux[1] = parse_linux_interfaces(WellFormedText(1))

\* The k-th call of get_device_credentials.
CredentialCall(k) == credential_calls[k]

\* The names of the two environment variables of a device identifier.
UsernameVariable(device_identifier) == ToUpper(device_identifier) \o "_USERNAME"
PasswordVariable(device_identifier) == ToUpper(device_identifier) \o "_PASSWORD"

\* C25: when the store has no entry for the device identifier,
\* get_device_credentials reads the environment variables <ID>_USERNAME and
\* <ID>_PASSWORD of the upper-cased identifier, returns credentials from
\* them only if both are present and None if either is missing; when a
\* stored entry exists, that entry is returned and the environment is not
\* consulted.
C25_StoredEntryElseEnvironment ==
    \A k \in 1..Len(credential_calls) :
        LET c == CredentialCall(k)
            u == UsernameVariable(c.device_identifier)
            p == PasswordVariable(c.device_identifier)
        IN /\ c.stored = None =>
                  /\ c.getenv_calls = <<u, p>>
                  /\ c.returned # None =>
                         /\ getenv(environ, u) # None
                         /\ getenv(environ, p) # None
                         /\ c.returned = Some(PlainEntry(getenv(environ, u)[1],
                                                         getenv(environ, p)[1]))
                  /\ (getenv(environ, u) = None \/ getenv(environ, p) = None)
                         => c.returned = None
           /\ c.stored # None =>
                  /\ c.returned = c.stored
                  /\ c.getenv_calls = <<>>

\* C26: for every accepted batch of n commands (connected, with a non-blank
\* line, every command safe), if the dialect is not cisco_ios, or is
\* cisco_ios and no command requires configuration mode, then neither
\* 'configure terminal' nor 'end' is sent and the transport receives exactly
\* the n commands of the batch.
C26_PlainBatchSentAsIs ==
    (BatchSubmitted /\ AllSafe /\ ~ NeedsConfig) =>
        /\ IsPrefix(sent, commands_to_execute)
        /\ \A k \in 1..Len(sent) : sent[k] \notin {"configure terminal", "end"}
        /\ pc = "returned" => sent = commands_to_execute

\* A batch of two commands that need no configuration mode was executed on
\* a Cisco device.
C26_Witness ==
    /\ pc = "returned"
    /\ os_type = "cisco_ios"
    /\ commands_to_execute = <<"show version", "show version">>
    /\ sent = <<"show version", "show version">>
    /\ result.status = "Commands executed successfully."

\* The text has no non-blank line: it is made of white space and line breaks.
NoCommandLine(text) == IsBlank(text)

C28_NothingSentWithoutSession ==
    (~ session_active /\ pc # "idle") =>
        /\ sent = <<>>
        /\ pc = "returned" => result = [output |-> None, status |-> "Device not connected."]

\* The positions at which the call sent the command.
SentAt(k, command) == {i \in 1..Len(Call(k).sent) : Call(k).sent[i] = command}

\* C29: in every gather_context call for cisco_ios, if 'terminal length 0'
\* was sent, then 'terminal no length' is sent later in the same call, before
\* it returns, also when a fact cannot be parsed and the call returns no
\* context.
C29_PagingAlwaysRestored ==
    \A k \in 1..Len(gather_calls) :
        \A i \in SentAt(k, "terminal length 0") :
            \E j \in SentAt(k, "terminal no length") : i < j

\* What the call gathers on a builder that was just constructed.
FreshlyGathered(k) ==
    gather_context(EmptyContext, Call(k).client, Call(k).device, Call(k).active,
                   Call(k).os_type).context

\* C30: every field of a context returned by gather_context was derived from
\* the responses of that same call: the context holds no hostname, os_version
\* or interface table left over from an earlier call, so it equals the
\* context the same call gathers on a new builder.
C30_NoFieldFromEarlierCall ==
    \A k \in 1..Len(gather_calls) :
        Call(k).returned = "self.context" => Call(k).snapshot = FreshlyGathered(k)

====
